---- MODULE Spec2Model ----
(***************************************************************************)
(* Picture-compression: compress_image (binary search over the encoder     *)
(* quality with retry-on-lock saves), its caller start_compression and     *)
(* the directory walk process_directory.                                   *)
(* compress.py lines 10-110 and compress_ui.py lines 221-321 are the same  *)
(* text; line numbers below are those of src/src/compress.py.              *)
(***************************************************************************)
EXTENDS Integers, Sequences, FiniteSets, TLC

VARIABLES
    target_size_kb,   \* argument of compress_image
    min_quality,      \* argument of compress_image
    input_kind,       \* what input_path holds: "image" or "not_image"
    original_size,    \* os.path.getsize(input_path)
    enc,              \* the encoder: quality -> byte size of img.save at that quality
    file,             \* what output_path holds
    img,              \* the decoded image object: "none" or "open"
    min_q, max_q, best_quality, current_quality,   \* locals of the search
    tries,            \* iterations of `for _ in range(3)` run in the current save step
    attempts,         \* failures of the save step in progress, in order (after
                      \* the final save: the failures that save went through)
    pc,               \* position in compress_image
    raised,           \* the exception compress_image ended with ("none" if none)
    dialog,           \* the message box start_compression showed
    entries,          \* process_directory: what input_path.rglob('*') yields
    idx,              \* process_directory: entries consumed so far
    called,           \* process_directory: indices of entries passed to compress_image
    wpc,              \* position in process_directory
    output_format,    \* argument of process_directory: "JPEG", "PNG" or "WEBP"
    calls             \* process_directory: the calls of compress_image made, in order:
                      \* the entry passed as input and the output_file passed

vars == <<target_size_kb, min_quality, input_kind, original_size, enc, file, img,
          min_q, max_q, best_quality, current_quality, tries, attempts, pc, raised,
          dialog, entries, idx, called, wpc, output_format, calls>>

search == <<min_q, max_q, best_quality, current_quality>>
request == <<target_size_kb, min_quality, input_kind, original_size>>
walk == <<entries, idx, called, wpc, output_format, calls>>

----------------------------------------------------------------------------
(* Program constants *)

MaxQuality == 95
Retries == 3
QualityLimit == 100
BytesPerKB == 1024

(* Bounds of the model *)
MaxTargetKB == 1
MaxFiles == 2

(* best_quality = None *)
None == 0

----------------------------------------------------------------------------
(* Values *)

Qualities == 1..QualityLimit

target_size == target_size_kb * BytesPerKB

\* Byte sizes an encode can produce, around the budget t: exactly the budget
\* and one byte over it.
EncodedSizes(t) == {t, t + 1}

\* Byte sizes of the input file around the budget t.
OriginalSizes(t) == {t - 1, t, t + 1}

Absent == [kind |-> "absent", quality |-> 0, size |-> 0]
OldFile == [kind |-> "old", quality |-> 0, size |-> 0]
Partial == [kind |-> "partial", quality |-> 0, size |-> 0]
Encoded(q, s) == [kind |-> "image", quality |-> q, size |-> s]

NoEncoder == [q \in {} |-> 0]

\* The sizes the encoder may produce at quality q: the encoder is
\* deterministic, so a quality encoded before yields the same size again.
SizesAt(q) == IF q \in DOMAIN enc THEN {enc[q]} ELSE EncodedSizes(target_size)

Remember(q, s) == IF q \in DOMAIN enc THEN enc ELSE (q :> s) @@ enc

----------------------------------------------------------------------------
(* compress_image: the pieces of lines 20-79 *)

\* Mutant of AlreadySmall: a strict comparison.
AlreadySmallStrict(orig, target) == orig < target

\* line 24: if original_size <= target_size
AlreadySmall(orig, target) == orig <= target

\* Mutant of InitialMaxQ: the search starts from the top of the quality scale.
InitialMaxQFullScale == QualityLimit

\* line 31: max_q = 95
InitialMaxQ == MaxQuality

\* Mutant of LoopContinues: the loop stops one iteration early.
LoopContinuesStrict(lo, hi) == lo < hi

\* line 33: while min_q <= max_q
LoopContinues(lo, hi) == lo <= hi

\* line 34: current_quality = (min_q + max_q) // 2
Midpoint(lo, hi) == (lo + hi) \div 2

\* Mutant of Feasible: a file exactly at the budget counts as too large.
FeasibleStrict(size, target) == size < target

\* line 51: if current_size <= target_size
Feasible(size, target) == size <= target

\* line 42: the quality a retry inside the loop saves at
LoopRetryQuality == current_quality

\* Mutant of FinalSaveQuality: the final save repeats the last midpoint.
FinalSaveAtLastMidpoint == current_quality

\* line 60: the quality the final save writes
FinalSaveQuality == best_quality

\* Mutant of FinalRetryQuality: the retry copied from line 42 unchanged.
FinalRetryAtLastMidpoint == current_quality

\* line 65: the quality a retry of the final save writes
FinalRetryQuality == best_quality

\* How an img.save can fail: the destination is locked (PermissionError when
\* opening it, nothing written) or anything else (the destination was opened
\* for writing and the write did not complete).
FailureKinds == {"locked", "other"}

FileAfterFailure(kind) == IF kind = "locked" THEN file ELSE Partial

\* lines 49-55: measure the file just written at quality q and narrow the range
Measure(q, size) ==
    IF Feasible(size, target_size)
    THEN /\ best_quality' = q
         /\ min_q' = q + 1
         /\ max_q' = max_q
    ELSE /\ max_q' = q - 1
         /\ min_q' = min_q
         /\ best_quality' = best_quality

\* img.save(output_path, quality=q) returning normally, the file then s bytes
SaveOk(q, s) ==
    /\ file' = Encoded(q, s)
    /\ enc' = Remember(q, s)

Raise(e) ==
    /\ pc' = "raised"
    /\ raised' = e

----------------------------------------------------------------------------
(* compress_image: the steps *)

\* lines 21-32: size check, decode, initialise the search
Validate ==
    /\ pc = "start"
    /\ IF AlreadySmall(original_size, target_size)
       THEN /\ Raise("ValueError")
            /\ UNCHANGED <<img, search>>
       ELSE IF input_kind # "image"
       THEN /\ Raise("DecodeError")
            /\ UNCHANGED <<img, search>>
       ELSE /\ img' = "open"
            /\ min_q' = min_quality
            /\ max_q' = InitialMaxQ
            /\ best_quality' = None
            /\ pc' = "loop"
            /\ UNCHANGED <<raised, current_quality>>
    /\ UNCHANGED <<request, enc, file, tries, attempts, dialog, walk>>

\* lines 33-37 and 49-55: one iteration whose first save succeeds
LoopSaveOk ==
    /\ pc = "loop"
    /\ LoopContinues(min_q, max_q)
    /\ LET q == Midpoint(min_q, max_q) IN
         /\ current_quality' = q
         /\ \E s \in SizesAt(q) :
              /\ SaveOk(q, s)
              /\ Measure(q, s)
    /\ tries' = 0
    /\ attempts' = <<>>
    /\ UNCHANGED <<request, img, pc, raised, dialog, walk>>

\* lines 33-38: one iteration whose first save raises
LoopSaveFail ==
    /\ pc = "loop"
    /\ LoopContinues(min_q, max_q)
    /\ current_quality' = Midpoint(min_q, max_q)
    /\ tries' = 0
    /\ \E k \in FailureKinds :
         /\ attempts' = <<k>>
         /\ file' = FileAfterFailure(k)
         /\ IF k = "locked"
            THEN /\ pc' = "retry"          \* except PermissionError
                 /\ UNCHANGED raised
            ELSE Raise("OSError")          \* not caught at line 38
    /\ UNCHANGED <<request, enc, img, min_q, max_q, best_quality, dialog, walk>>

\* lines 40-47: the retry loop of an iteration
LoopRetry ==
    /\ pc = "retry"
    /\ IF tries < Retries
       THEN \/ \E s \in SizesAt(LoopRetryQuality) :     \* save succeeds: break
                 /\ SaveOk(LoopRetryQuality, s)
                 /\ Measure(current_quality, s)
                 /\ pc' = "loop"
                 /\ tries' = 0
                 /\ attempts' = <<>>
                 /\ UNCHANGED raised
            \/ \E k \in FailureKinds :                  \* bare except: sleep, next try
                 /\ attempts' = Append(attempts, k)
                 /\ file' = FileAfterFailure(k)
                 /\ tries' = tries + 1
                 /\ UNCHANGED <<enc, min_q, max_q, best_quality, pc, raised>>
       ELSE /\ Raise("PermissionError")                 \* the for's else, line 47
            /\ UNCHANGED <<enc, file, min_q, max_q, best_quality, tries, attempts>>
    /\ UNCHANGED <<request, img, current_quality, dialog, walk>>

\* line 57 with best_quality None: nothing more is written, the function returns
ReturnNone ==
    /\ pc = "loop"
    /\ ~LoopContinues(min_q, max_q)
    /\ best_quality = None
    /\ pc' = "done"
    /\ UNCHANGED <<request, enc, file, img, search, tries, attempts, raised, dialog, walk>>

\* lines 57-60, 71-76: the final save succeeds at once
FinalSaveOk ==
    /\ pc = "loop"
    /\ ~LoopContinues(min_q, max_q)
    /\ best_quality # None
    /\ \E s \in SizesAt(FinalSaveQuality) : SaveOk(FinalSaveQuality, s)
    /\ tries' = 0
    /\ attempts' = <<>>
    /\ pc' = "done"
    /\ UNCHANGED <<request, img, search, raised, dialog, walk>>

\* lines 57-61: the final save raises
FinalSaveFail ==
    /\ pc = "loop"
    /\ ~LoopContinues(min_q, max_q)
    /\ best_quality # None
    /\ tries' = 0
    /\ \E k \in FailureKinds :
         /\ attempts' = <<k>>
         /\ file' = FileAfterFailure(k)
         /\ IF k = "locked"
            THEN /\ pc' = "final_retry"
                 /\ UNCHANGED raised
            ELSE Raise("OSError")
    /\ UNCHANGED <<request, enc, img, search, dialog, walk>>

\* lines 63-70: the retry loop of the final save
FinalRetry ==
    /\ pc = "final_retry"
    /\ IF tries < Retries
       THEN \/ \E s \in SizesAt(FinalRetryQuality) :
                 /\ SaveOk(FinalRetryQuality, s)
                 /\ pc' = "done"
                 /\ UNCHANGED <<tries, attempts, raised>>
            \/ \E k \in FailureKinds :
                 /\ attempts' = Append(attempts, k)
                 /\ file' = FileAfterFailure(k)
                 /\ tries' = tries + 1
                 /\ UNCHANGED <<enc, pc, raised>>
       ELSE /\ Raise("PermissionError")
            /\ UNCHANGED <<enc, file, tries, attempts>>
    /\ UNCHANGED <<request, img, search, dialog, walk>>

Returned == pc \in {"done", "raised"}

----------------------------------------------------------------------------
(* start_compression, single-file branch (lines 238-248) *)

\* line 246 after compress_image returned, line 248 after it raised
Report ==
    /\ wpc = "off"
    /\ Returned
    /\ dialog = "none"
    /\ dialog' = IF pc = "done" THEN "success" ELSE "error"
    /\ UNCHANGED <<request, enc, file, img, search, tries, attempts, pc, raised, walk>>

----------------------------------------------------------------------------
(* Specifications *)

\* The locals of compress_image before it runs.
Fresh ==
    /\ img = "none"
    /\ min_q = 0
    /\ max_q = 0
    /\ best_quality = None
    /\ current_quality = None
    /\ tries = 0
    /\ attempts = <<>>
    /\ raised = "none"

NoWalk ==
    /\ entries = <<>>
    /\ idx = 0
    /\ called = {}
    /\ wpc = "off"
    /\ output_format = "JPEG"
    /\ calls = <<>>

\* One call of compress_image from start_compression, any encoder.
Init ==
    /\ target_size_kb \in 1..MaxTargetKB
    /\ min_quality \in Qualities
    /\ input_kind \in {"image", "not_image"}
    /\ original_size \in OriginalSizes(target_size)
    /\ enc = NoEncoder
    /\ file \in {Absent, OldFile}
    /\ Fresh
    /\ pc = "start"
    /\ dialog = "none"
    /\ NoWalk

Next ==
    \/ Validate
    \/ LoopSaveOk
    \/ LoopSaveFail
    \/ LoopRetry
    \/ ReturnNone
    \/ FinalSaveOk
    \/ FinalSaveFail
    \/ FinalRetry
    \/ Report

Spec == Init /\ [][Next]_vars

----------------------------------------------------------------------------
(* process_directory (lines 92-110) and the directory branch of
   start_compression (lines 241-248) *)

\* line 97
ImageExtensions == {".jpg", ".jpeg", ".png", ".webp"}

\* The suffixes of the entries rglob yields in the model.
Suffixes == {".jpg", ".PNG", ".txt"}

\* str.lower() on those suffixes
Lower(s) == IF s = ".PNG" THEN ".png" ELSE s

\* line 100: if img_path.suffix.lower() in image_extensions
IsImage(e) == Lower(e.suffix) \in ImageExtensions

\* The relative paths of the entries without their suffix.
Stems == {"a", "b"}

\* line 10, 155: the output formats
Formats == {"JPEG", "PNG", "WEBP"}

\* An entry of the walk: its path relative to input_dir (stem and suffix),
\* whether it is a regular file (rglob('*') yields directories too), and
\* whether creating the mirrored output directory for it (line 104) raises.
Entry == [stem : Stems, suffix : Suffixes, is_file : BOOLEAN, mkdir_fails : BOOLEAN]

\* A directory tree holds no two entries of the same path.
DistinctPaths(es) ==
    \A i, j \in 1..Len(es) :
        (es[i].stem = es[j].stem /\ es[i].suffix = es[j].suffix) => i = j

\* line 102: f'.{output_format.lower()}'
FormatSuffix(f) ==
    CASE f = "JPEG" -> ".jpeg"
      [] f = "PNG" -> ".png"
      [] f = "WEBP" -> ".webp"

\* lines 101-102: output_path / relative_path.with_suffix(...): the relative
\* path with its suffix replaced by the output format's
OutputFile(e) == [stem |-> e.stem, suffix |-> FormatSuffix(output_format)]

SeqsUpTo(S, n) == UNION { [1..k -> S] : k \in 0..n }

\* min_quality values of the walks of the model: searches of two, one and no
\* iterations.
DirMinQualities == {MaxQuality - 1, MaxQuality, MaxQuality + 1}

\* lines 99-100: the next entry is no image: nothing is done with it
WalkSkip ==
    /\ wpc = "walking"
    /\ idx < Len(entries)
    /\ ~IsImage(entries[idx + 1])
    /\ idx' = idx + 1
    /\ UNCHANGED <<request, enc, file, img, search, tries, attempts, pc, raised,
                   dialog, entries, called, wpc, output_format, calls>>

\* lines 100-104: output_file.parent.mkdir raises; the statement is outside
\* the try of line 107, so the exception leaves process_directory
WalkMkdirFail ==
    /\ wpc = "walking"
    /\ idx < Len(entries)
    /\ IsImage(entries[idx + 1])
    /\ entries[idx + 1].mkdir_fails
    /\ wpc' = "aborted"
    /\ UNCHANGED <<request, enc, file, img, search, tries, attempts, pc, raised,
                   dialog, entries, idx, called, output_format, calls>>

\* lines 100-108: the next entry is an image and compress_image is called on
\* it: its own input file, its own output path, its own encoder
WalkCall ==
    /\ wpc = "walking"
    /\ idx < Len(entries)
    /\ IsImage(entries[idx + 1])
    /\ ~entries[idx + 1].mkdir_fails
    /\ called' = called \cup {idx + 1}
    /\ calls' = Append(calls, [entry |-> idx + 1, output |-> OutputFile(entries[idx + 1])])
    /\ wpc' = "in_call"
    /\ input_kind' \in (IF entries[idx + 1].is_file THEN {"image", "not_image"}
                                                    ELSE {"not_image"})
    /\ original_size' \in OriginalSizes(target_size)
    /\ enc' = NoEncoder
    /\ file' \in {Absent, OldFile}
    /\ img' = "none"
    /\ min_q' = 0
    /\ max_q' = 0
    /\ best_quality' = None
    /\ current_quality' = None
    /\ tries' = 0
    /\ attempts' = <<>>
    /\ raised' = "none"
    /\ pc' = "start"
    /\ UNCHANGED <<target_size_kb, min_quality, dialog, entries, idx, output_format>>

\* lines 108-110: compress_image returned or raised (caught and printed);
\* the loop goes on to the next entry
WalkReturn ==
    /\ wpc = "in_call"
    /\ Returned
    /\ idx' = idx + 1
    /\ wpc' = "walking"
    /\ pc' = "idle"
    /\ UNCHANGED <<request, enc, file, img, search, tries, attempts, raised,
                   dialog, entries, called, output_format, calls>>

\* line 99: rglob is exhausted, process_directory returns
WalkEnd ==
    /\ wpc = "walking"
    /\ idx = Len(entries)
    /\ wpc' = "finished"
    /\ UNCHANGED <<request, enc, file, img, search, tries, attempts, pc, raised,
                   dialog, entries, idx, called, output_format, calls>>

\* line 246 after process_directory returned, line 248 after it raised
ReportWalk ==
    /\ wpc \in {"finished", "aborted"}
    /\ dialog = "none"
    /\ dialog' = IF wpc = "finished" THEN "success" ELSE "error"
    /\ UNCHANGED <<request, enc, file, img, search, tries, attempts, pc, raised, walk>>

\* One call of process_directory from start_compression.
InitWalk ==
    /\ target_size_kb \in 1..MaxTargetKB
    /\ min_quality \in DirMinQualities
    /\ input_kind = "image"
    /\ original_size = 0
    /\ enc = NoEncoder
    /\ file = Absent
    /\ Fresh
    /\ pc = "idle"
    /\ dialog = "none"
    /\ entries \in { es \in SeqsUpTo(Entry, MaxFiles) : DistinctPaths(es) }
    /\ idx = 0
    /\ called = {}
    /\ output_format \in Formats
    /\ calls = <<>>
    /\ wpc = "walking"

NextWalk ==
    \/ WalkSkip
    \/ WalkMkdirFail
    \/ WalkCall
    \/ WalkReturn
    \/ WalkEnd
    \/ ReportWalk
    \/ Validate
    \/ LoopSaveOk
    \/ LoopSaveFail
    \/ LoopRetry
    \/ ReturnNone
    \/ FinalSaveOk
    \/ FinalSaveFail
    \/ FinalRetry

SpecWalk == InitWalk /\ [][NextWalk]_vars

----------------------------------------------------------------------------
(* The run of lines 30-55 in which no save fails, as a function of the
   encoder: the search from (lo, hi) with best candidate b and last tested
   midpoint l. A quality the encoder was never asked for yields Diverged. *)

Diverged == [best |-> -1, last |-> -1]

RECURSIVE RefSearch(_, _, _, _)
RefSearch(lo, hi, b, l) ==
    IF ~LoopContinues(lo, hi)
    THEN [best |-> b, last |-> l]
    ELSE LET q == Midpoint(lo, hi) IN
         IF q \notin DOMAIN enc
         THEN Diverged
         ELSE IF Feasible(enc[q], target_size)
              THEN RefSearch(q + 1, hi, q, q)
              ELSE RefSearch(lo, q - 1, b, q)

\* lines 30-60 without failures: the result of the search and the quality of
\* the last save (the final save at best, else the last midpoint)
RefRun ==
    LET r == RefSearch(min_quality, InitialMaxQ, None, None) IN
    [best |-> r.best, written |-> IF r.best # None THEN r.best ELSE r.last]

----------------------------------------------------------------------------
(* Claims *)

\* The encoders whose size is non-decreasing in the quality, over the sizes
\* EncodedSizes(t), are the step functions: size t up to a threshold k,
\* t + 1 above it. Over the qualities m..MaxQuality the thresholds are
\* (m - 1)..MaxQuality (m - 1: no quality fits the budget).
Thresholds(m) == (m - 1)..MaxQuality

StepSize(t, k, q) == IF q <= k THEN t ELSE t + 1

\* The step encoder of threshold k gives, at every quality encoded in this
\* run, the size the encoder gave.
Agrees(k) ==
    \A q \in DOMAIN enc :
        /\ q \in min_quality..MaxQuality
        /\ enc[q] = StepSize(target_size, k, q)

\* Quality q encoded by the step encoder of threshold k fits the budget.
Fits(k, q) == StepSize(target_size, k, q) <= target_size_kb * BytesPerKB

\* The loop of lines 33-55 has just ended.
SearchEnded == pc = "loop" /\ min_q > max_q

\* C1: for min_quality in 1..95 and every encoder whose size is
\* non-decreasing in the quality, if some quality of [min_quality, 95]
\* encodes to a size <= target (equality included), the search ends with
\* best_quality the largest such quality.
C1_LargestFeasible ==
    (SearchEnded /\ min_quality <= MaxQuality)
        => \A k \in Thresholds(min_quality) :
              (Agrees(k) /\ \E q \in min_quality..MaxQuality : Fits(k, q))
                  => /\ best_quality \in min_quality..MaxQuality
                     /\ Fits(k, best_quality)
                     /\ \A q \in min_quality..MaxQuality :
                           Fits(k, q) => q <= best_quality

C1_Witness ==
    /\ pc = "loop"
    /\ min_q > max_q
    /\ min_quality < best_quality
    /\ best_quality < MaxQuality
    /\ enc[best_quality] = target_size
    /\ enc[best_quality + 1] = target_size + 1
    /\ Agrees(best_quality)

\* C2: whenever compress_image returns having found a feasible quality, the
\* file at output_path is the encoding at best_quality (not at the last
\* midpoint tested) and its size is <= target_size_kb * 1024, for any
\* deterministic encoder.
C2_FinalFileAtBest ==
    (pc = "done" /\ best_quality # None)
        => /\ best_quality \in DOMAIN enc
           /\ file = Encoded(best_quality, enc[best_quality])
           /\ file.size <= target_size_kb * BytesPerKB

C2_Witness ==
    /\ pc = "done"
    /\ best_quality # None
    /\ current_quality # best_quality
    /\ file.kind = "image"
    /\ file.quality = best_quality
    /\ file.size <= target_size_kb * BytesPerKB

\* C3: in every state of the search, for any encoder and any min_quality,
\* best_quality is absent or min_quality <= best_quality <= 95.
C3_BestInRange ==
    best_quality = None \/ (min_quality <= best_quality /\ best_quality <= MaxQuality)

C3_Witness ==
    /\ pc = "done"
    /\ min_quality < MaxQuality
    /\ best_quality = MaxQuality

\* C4: whenever compress_image returns without raising (min_quality in
\* 1..100, input larger than the target), a file written by this invocation
\* is at output_path.
C4_AlwaysLeavesOutput ==
    pc = "done" => file.kind = "image"

\* C5: when the search tested midpoints and none was feasible, the caller
\* reports an error ("could not reach target size"), never a success.
C5_NoFeasibleIsReported ==
    (dialog # "none" /\ current_quality # None /\ best_quality = None)
        => dialog = "error"

\* C6: if original_size <= target_size_kb * 1024 (equality included),
\* compress_image raises its rejection before decoding or encoding anything,
\* and output_path is left as it was.
C6_RejectsWithoutWriting ==
    [][(pc = "start" /\ original_size <= target_size_kb * BytesPerKB)
          => /\ pc' = "raised"
             /\ raised' = "ValueError"
             /\ img' = "none"
             /\ enc' = enc
             /\ file' = file]_vars

C6_Witness ==
    /\ pc = "raised"
    /\ raised = "ValueError"
    /\ original_size = target_size_kb * BytesPerKB
    /\ input_kind = "not_image"
    /\ img = "none"
    /\ file = OldFile

C8_RetriesKeepResult ==
    pc = "done"
        => /\ best_quality = RefRun.best
           /\ IF RefRun.written = None
              THEN file \in {Absent, OldFile}
              ELSE /\ RefRun.written \in DOMAIN enc
                   /\ file = Encoded(RefRun.written, enc[RefRun.written])

\* The final save failed on the lock, failed again on retry #1 leaving a
\* partial file, and succeeded on retry #2.
C8_Witness ==
    /\ pc = "done"
    /\ attempts = <<"locked", "other">>
    /\ tries = 1
    /\ best_quality # None
    /\ best_quality # current_quality
    /\ file = Encoded(best_quality, enc[best_quality])

\* C9: a save step surfaces PermissionError only after a failed first attempt
\* and 3 failed retries, and only when the failures of the step were
\* lock/permission failures of the destination.
C9_WriteDeniedOnlyForLocks ==
    (pc = "raised" /\ raised = "PermissionError")
        => /\ tries = Retries
           /\ Len(attempts) = Retries + 1
           /\ \A i \in 1..Len(attempts) : attempts[i] = "locked"

\* The discovered entries process_directory has to compress.
ImageIndices == { i \in 1..Len(entries) : IsImage(entries[i]) }

\* C10: an error while processing one discovered file (creating its mirrored
\* output directory or compressing it) never aborts the walk: once
\* process_directory has ended, every other discovered image file, whose own
\* output directory could be created, was passed to compress_image.
C10_SiblingsStillProcessed ==
    (/\ wpc \in {"finished", "aborted"}
     /\ \A i \in 1..Len(entries) : entries[i].is_file)
        => \A i \in ImageIndices : ~entries[i].mkdir_fails => i \in called

\* The calls of compress_image made with entry i as the input.
CallsOf(i) == { k \in 1..Len(calls) : calls[k].entry = i }

\* C11: process_directory passes to compress_image exactly the regular files
\* under input_dir whose extension, compared case-insensitively, is one of
\* .jpg, .jpeg, .png, .webp, each exactly once, and never any other entry
\* (a non-image file or a directory).
C11_ExactlyTheImageFiles ==
    wpc = "finished"
        => \A i \in 1..Len(entries) :
              Cardinality(CallsOf(i)) =
                  IF entries[i].is_file /\ Lower(entries[i].suffix) \in ImageExtensions
                  THEN 1 ELSE 0

\* C12: within one run of process_directory, two distinct discovered input
\* files are passed to compress_image with two distinct output paths.
C12_DistinctOutputs ==
    \A j, k \in 1..Len(calls) :
        (/\ calls[j].entry # calls[k].entry
         /\ entries[calls[j].entry].is_file
         /\ entries[calls[k].entry].is_file)
            => calls[j].output # calls[k].output

====
